---- MODULE Spec2Model ----
(***************************************************************************)
(* State-machine model of nk_passkey_test: the credential store and the    *)
(* domain extractor of common.py, and the register / login entry points    *)
(* of register.py and login.py.                                            *)
(*                                                                         *)
(* Strings that matter structurally (host names) are sequences of tokens:  *)
(* the token "." is the dot, every other token is a dot-free piece of      *)
(* text.  A snapshot file name is the clock reading it was formatted from  *)
(* (the format %Y-%m-%d_%H-%M-%S sorts as the reading does).               *)
(***************************************************************************)
EXTENDS Integers, Sequences, FiniteSets, TLC

\* ------------------------------------------------------------------ bounds
MaxTime == 2
MaxLen == 2
MaxLabels == 4
MaxCount == 2
MaxPrompts == 1

VARIABLES
    clock,      \* local wall clock, in seconds (datetime.now())
    dirExists,  \* CREDENTIALS_DIR is a directory
    files,      \* the *.json files of CREDENTIALS_DIR: name -> JSON array
    url,        \* the NK_LOGIN_URL setting, or the URL handed to extract_domain
    ret,        \* outcome of the last direct call of a store function
    pre,        \* the files as they were before the last call / at the start of the run
    prevSave,   \* <<[path, time]>> of the save_credentials call right before the last call
    domainRet,  \* outcome of the last extract_domain call
    flow,       \* entry point running: "none", "register", "login"
    pc,         \* position of the running entry point in main()
    prompts,    \* login.main: inputs rejected by the selection prompt so far
    typed,      \* login.main: <<choice>>, the last line read by the selection prompt
    tried,      \* the steps of main() attempted so far in the run
    driver,     \* browser session of the run: "none", "open", "quit"
    auth,       \* credentials held by the session's virtual authenticator
    listed,     \* login.main: files
    selected,   \* login.main: selected (<<>> before the selection)
    creds,      \* main: credentials / updated
    outcome,    \* how the last run ended
    siteRp,     \* relying-party id the site at the login URL registers passkeys under
    preNames,   \* names of the snapshot files when the run started
    lastLogin   \* <<[path, count, nth]>>: the last login run that got to its save

vars == <<clock, dirExists, files, url, ret, pre, prevSave, domainRet,
          flow, pc, prompts, typed, tried, driver, auth, listed, selected, creds,
          outcome,
          siteRp, preNames, lastLogin>>

storeVars == <<dirExists, files>>
apiVars == <<ret, pre, prevSave>>
flowVars == <<flow, pc, prompts, typed, tried, driver, auth, listed, selected, creds,
          outcome,
              siteRp, preNames, lastLogin>>

\* ------------------------------------------------------------ text helpers
Dot == "."

RECURSIVE join(_)
\* ".".join(parts)
join(parts) ==
    IF parts = <<>> THEN <<>>
    ELSE IF Len(parts) = 1 THEN parts[1]
    ELSE parts[1] \o <<Dot>> \o join(Tail(parts))

RECURSIVE split(_)
\* s.split("."): always at least one (possibly empty) part
split(s) ==
    IF \A i \in 1..Len(s) : s[i] # Dot THEN <<s>>
    ELSE LET k == CHOOSE i \in 1..Len(s) :
                      s[i] = Dot /\ \A j \in 1..(i - 1) : s[j] # Dot
         IN  <<SubSeq(s, 1, k - 1)>> \o split(SubSeq(s, k + 1, Len(s)))

\* str.lower() on one token
lower(tok) == IF tok = "CO" THEN "co" ELSE IF tok = "JP" THEN "jp" ELSE tok

\* the first k parts instead of the last
LastParts_leading(parts, k) ==
    IF Len(parts) <= k THEN parts ELSE SubSeq(parts, 1, k)

\* parts[-k:]
LastParts(parts, k) ==
    IF Len(parts) <= k THEN parts
    ELSE SubSeq(parts, Len(parts) - k + 1, Len(parts))

\* ------------------------------------------------------- domain extractor
MultiPartMarkers == {<<"co">>, <<"or">>, <<"ne">>, <<"ac">>, <<"go">>}

\* urlparse(url).hostname: None (here <<>>) without a network location,
\* otherwise the host in lower case
hostname(u) == [i \in 1..Len(u.netloc) |-> lower(u.netloc[i])]

\* the length test off by one: a.co.jp is no longer kept whole
extract_domain_strict(u) ==
    LET host == hostname(u) IN
    IF host = <<>> THEN [err |-> "ValueError", value |-> <<>>]
    ELSE LET parts == split(host) IN
         IF Len(parts) > 3 /\ parts[Len(parts) - 1] \in MultiPartMarkers
         THEN [err |-> "", value |-> join(LastParts(parts, 3))]
         ELSE [err |-> "", value |-> join(LastParts(parts, 2))]

extract_domain(u) ==
    LET host == hostname(u) IN
    IF host = <<>> THEN [err |-> "ValueError", value |-> <<>>]
    ELSE LET parts == split(host) IN
         IF Len(parts) >= 3 /\ parts[Len(parts) - 1] \in MultiPartMarkers
         THEN [err |-> "", value |-> join(LastParts(parts, 3))]
         ELSE [err |-> "", value |-> join(LastParts(parts, 2))]

\* --------------------------------------------------------- credential store
\* Credential.to_dict / Credential.from_dict: the object's attributes against
\* the keys of the JSON object
to_dict(c) ==
    [credentialId |-> c.id, rpId |-> c.rp_id, signCount |-> c.sign_count]

\* the counter not taken over from the JSON object
from_dict_without_count(d) ==
    [id |-> d.credentialId, rp_id |-> d.rpId, sign_count |-> 0]

from_dict(d) ==
    [id |-> d.credentialId, rp_id |-> d.rpId, sign_count |-> d.signCount]

\* data = [c.to_dict() for c in credentials]; json.dumps(data, ...)
dumps(credentials) == [i \in 1..Len(credentials) |-> to_dict(credentials[i])]

\* [Credential.from_dict(d) for d in json.loads(text)]
loads(text) == [i \in 1..Len(text) |-> from_dict(text[i])]

\* the seconds left out of the format: one name per two clock readings
strftime_coarse(now) == (now + 1) \div 2

\* datetime.now().strftime("%Y-%m-%d_%H-%M-%S") + ".json"
strftime(now) == now

\* path.write_text(text): creates or replaces exactly that file
write_text(fs, path, text) ==
    [p \in (DOMAIN fs) \cup {path} |-> IF p = path THEN text ELSE fs[p]]

\* the files after save_credentials(credentials) called at clock reading now
save_credentials(fs, now, credentials) ==
    write_text(fs, strftime(now), dumps(credentials))

RECURSIVE SortedReverse(_)
\* sorted(names, reverse=True)
SortedReverse(S) ==
    IF S = {} THEN <<>>
    ELSE LET m == CHOOSE x \in S : \A y \in S : y <= x
         IN  <<m>> \o SortedReverse(S \ {m})

\* the listing sorted oldest first
list_credential_files_ascending(isdir, fs) ==
    IF ~isdir THEN <<>>
    ELSE LET d == SortedReverse(DOMAIN fs) IN
         [i \in 1..Len(d) |-> d[Len(d) + 1 - i]]

list_credential_files(isdir, fs) ==
    IF ~isdir THEN <<>> ELSE SortedReverse(DOMAIN fs)

\* reads the newest file instead of the one asked for
load_credentials_from_newest(fs, path) ==
    loads(fs[CHOOSE x \in DOMAIN fs : \A y \in DOMAIN fs : y <= x])

load_credentials_from(fs, path) == loads(fs[path])

load_credentials(isdir, fs) ==
    LET fl == list_credential_files(isdir, fs) IN
    IF fl = <<>> THEN [err |-> "FileNotFoundError", creds |-> <<>>]
    ELSE [err |-> "", creds |-> load_credentials_from(fs, fl[1])]

\* the check answering whether the directory is there
credential_exists_isdir(isdir, fs) == isdir

credential_exists(isdir, fs) == Len(list_credential_files(isdir, fs)) > 0

\* save-to-path: the same serialization, written to the caller's path
save_credentials_to(fs, credentials, path) ==
    write_text(fs, path, dumps(credentials))

\* ------------------------------------------------------------ environment
NoFiles == [p \in {} |-> <<>>]

UrlUnset == [kind |-> "unset", netloc |-> <<>>]
UrlEmpty == [kind |-> "empty", netloc |-> <<>>]
UrlBank == [kind |-> "url",
            netloc |-> <<"www", Dot, "example", Dot, "co", Dot, "jp">>]
UrlPlain == [kind |-> "url", netloc |-> <<"example", Dot, "com">>]

\* the relying-party ids WebAuthn lets the page at URL u register passkeys
\* under: its own host (the default) or the registrable suffix of it
PermittedRpIds(u) == {hostname(u), extract_domain(u).value}

\* values of the NK_LOGIN_URL setting
EnvUrls == {UrlUnset, UrlEmpty, UrlBank, UrlPlain}

NoRet == [op |-> "none", err |-> "", path |-> <<>>, time |-> 0,
          creds |-> <<>>, paths |-> <<>>, flag |-> FALSE]

NoOutcome == [kind |-> "none", at |-> "idle", err |-> ""]

NoDomainRet == [called |-> FALSE, err |-> "", value |-> <<>>]

Init ==
    /\ clock = 1
    /\ dirExists \in BOOLEAN
    /\ files = NoFiles
    /\ url \in EnvUrls
    /\ siteRp \in PermittedRpIds(url)
    /\ ret = NoRet
    /\ pre = NoFiles
    /\ prevSave = <<>>
    /\ domainRet = NoDomainRet
    /\ flow = "none"
    /\ pc = "idle"
    /\ prompts = 0
    /\ typed = <<>>
    /\ tried = {}
    /\ driver = "none"
    /\ auth = <<>>
    /\ listed = <<>>
    /\ selected = <<>>
    /\ creds = <<>>
    /\ outcome = NoOutcome
    /\ preNames = {}
    /\ lastLogin = <<>>

\* the wall clock moves on by a second
Tick ==
    /\ clock < MaxTime
    /\ clock' = clock + 1
    /\ UNCHANGED <<storeVars, url, apiVars, domainRet, flowVars>>

\* the local wall clock is set back (clock correction, time-zone change):
\* datetime.now() is naive local time, not a monotonic clock
ClockSetBack ==
    /\ \E t \in 1..(clock - 1) : clock' = t
    /\ UNCHANGED <<storeVars, url, apiVars, domainRet, flowVars>>

\* ------------------------------------------- direct calls of the store API
\* the credential lists handed to the store: runs of up to MaxLen distinct
\* records, in rising and in falling order of their ids
ApiCred(i) ==
    [id |-> i, rp_id |-> <<"example", Dot, "com">>, sign_count |-> 0]

CredLists ==
    {[i \in 1..n |-> ApiCred(i)] : n \in 0..MaxLen}
        \cup {[i \in 1..n |-> ApiCred(n + 1 - i)] : n \in 0..MaxLen}

Paths == 1..MaxTime

ApiSave(c) ==
    /\ dirExists' = TRUE
    /\ files' = save_credentials(files, clock, c)
    /\ ret' = [NoRet EXCEPT !.op = "save", !.path = <<strftime(clock)>>,
                            !.time = clock, !.creds = c]
    /\ pre' = files
    /\ prevSave' = IF ret.op = "save"
                   THEN <<[path |-> ret.path[1], time |-> ret.time]>>
                   ELSE <<>>
    /\ UNCHANGED <<clock, url, domainRet, flowVars>>

\* the caller's path lies in the existing credential directory
ApiSaveTo(c, p) ==
    /\ dirExists
    /\ files' = save_credentials_to(files, c, p)
    /\ ret' = [NoRet EXCEPT !.op = "save_to", !.path = <<p>>, !.creds = c]
    /\ pre' = files
    /\ prevSave' = <<>>
    /\ UNCHANGED <<clock, dirExists, url, domainRet, flowVars>>

ApiLoad ==
    /\ LET r == load_credentials(dirExists, files) IN
       ret' = [NoRet EXCEPT !.op = "load", !.err = r.err, !.creds = r.creds]
    /\ pre' = files
    /\ prevSave' = <<>>
    /\ UNCHANGED <<clock, storeVars, url, domainRet, flowVars>>

ApiLoadFrom(p) ==
    /\ ret' = IF p \in DOMAIN files
              THEN [NoRet EXCEPT !.op = "load_from", !.path = <<p>>,
                                 !.creds = load_credentials_from(files, p)]
              ELSE [NoRet EXCEPT !.op = "load_from", !.path = <<p>>,
                                 !.err = "FileNotFoundError"]
    /\ pre' = files
    /\ prevSave' = <<>>
    /\ UNCHANGED <<clock, storeVars, url, domainRet, flowVars>>

ApiExists ==
    /\ ret' = [NoRet EXCEPT !.op = "exists",
                            !.flag = credential_exists(dirExists, files)]
    /\ pre' = files
    /\ prevSave' = <<>>
    /\ UNCHANGED <<clock, storeVars, url, domainRet, flowVars>>

ApiList ==
    /\ ret' = [NoRet EXCEPT !.op = "list",
                            !.paths = list_credential_files(dirExists, files)]
    /\ pre' = files
    /\ prevSave' = <<>>
    /\ UNCHANGED <<clock, storeVars, url, domainRet, flowVars>>

InitStore == Init /\ url = UrlPlain

NextStore ==
    \/ Tick
    \/ ClockSetBack
    \/ \E c \in CredLists : ApiSave(c)
    \/ ApiLoad
    \/ \E p \in Paths : ApiLoadFrom(p)
    \/ ApiExists
    \/ ApiList

SpecStore == InitStore /\ [][NextStore]_vars

\* the store with the save-to-path operation
NextStoreTo ==
    \/ NextStore
    \/ \E c \in CredLists, p \in Paths : ApiSaveTo(c, p)

SpecStoreTo == InitStore /\ [][NextStoreTo]_vars

\* ------------------------------------------- direct calls of extract_domain
DomainLabels ==
    {<<>>, <<"a">>, <<"jp">>, <<"co">>, <<"or">>, <<"ne">>, <<"ac">>,
     <<"go">>, <<"CO">>}

\* host names of up to MaxLabels labels (a label may be empty: "a..jp", "jp.")
DomainUrls ==
    {[kind |-> "url", netloc |-> join(ls)] :
        ls \in UNION {[1..n -> DomainLabels] : n \in 0..MaxLabels}}

InitDomain ==
    /\ clock = 1
    /\ dirExists = FALSE
    /\ files = NoFiles
    /\ url \in DomainUrls
    /\ ret = NoRet
    /\ pre = NoFiles
    /\ prevSave = <<>>
    /\ domainRet = NoDomainRet
    /\ flow = "none"
    /\ pc = "idle"
    /\ prompts = 0
    /\ typed = <<>>
    /\ tried = {}
    /\ driver = "none"
    /\ auth = <<>>
    /\ listed = <<>>
    /\ selected = <<>>
    /\ creds = <<>>
    /\ outcome = NoOutcome
    /\ siteRp = <<>>
    /\ preNames = {}
    /\ lastLogin = <<>>

ExtractDomain ==
    /\ ~domainRet.called
    /\ LET r == extract_domain(url) IN
       domainRet' = [called |-> TRUE, err |-> r.err, value |-> r.value]
    /\ UNCHANGED <<clock, storeVars, url, apiVars, flowVars>>

NextDomain == ExtractDomain

SpecDomain == InitDomain /\ [][NextDomain]_vars

\* ============================================================ entry points
\* never touched by the entry points
otherVars == <<ret, pre, prevSave, domainRet>>

\* what the step at position p of main() does: the wait for the passkey-setup
\* link and the click on it are written twice in navigate_to_passkey_setup,
\* every other step once
StepOf(p) ==
    IF p \in {"r_nav_direct", "r_nav_passkey_link"}
    THEN "click_passkey_setup_link"
    ELSE p

\* what main() leaves behind when it ends at the current position: the
\* session is left as it is, main() never calls cleanup_driver
Terminate(kind, err) ==
    /\ pc' = "done"
    /\ tried' = tried \cup {StepOf(pc)}
    /\ outcome' = [kind |-> kind, at |-> pc, err |-> err]
    /\ prompts' = 0
    /\ auth' = <<>>
    /\ listed' = <<>>
    /\ selected' = <<>>
    /\ creds' = <<>>
    /\ UNCHANGED <<flow, driver, preNames>>

\* a step of main() that moves on to position next and changes nothing else
\* of the run but what the caller names
Continue(next) ==
    /\ pc' = next
    /\ tried' = tried \cup {StepOf(pc)}
    /\ UNCHANGED <<flow, outcome, preNames>>

\* the classes the clause "except Exception" catches, among those raised here
ExceptionClasses == {"Exception", "RuntimeError", "ValueError"}

\* every reported failure turned into a non-zero status
exit_status_failing(o) == IF o.err = "" THEN 0 ELSE 1

\* exit status of the process whose main() ended with outcome o: main()
\* returned, or one of its except clauses caught the exception and main()
\* returned, or the exception (SystemExit(1) of load_url) went through both
exit_status(o) ==
    IF o.err = "" THEN 0
    ELSE IF o.err = "KeyboardInterrupt" THEN 0
    ELSE IF o.err \in ExceptionClasses THEN 0
    ELSE 1

\* cleanup_driver(driver): quit, any exception swallowed
cleanup_driver(d) == IF d # "none" THEN "quit" ELSE d

Idle == pc \in {"idle", "done"}

\* load_url(): the setting, or sys.exit(1) when it is missing or empty
UrlMissing == url.kind \in {"unset", "empty"}

\* ------------------------------------------------------------ register.py
RegisterStart ==
    /\ Idle
    /\ flow' = "register"
    /\ pc' = "r_load_url"
    /\ outcome' = [kind |-> "running", at |-> "idle", err |-> ""]
    /\ driver' = "none"
    /\ preNames' = DOMAIN files
    /\ lastLogin' = <<>>
    /\ typed' = <<>>
    /\ tried' = {}
    /\ UNCHANGED <<clock, storeVars, url, siteRp, otherVars, prompts, auth,
                   listed, selected, creds>>

RegLoadUrl ==
    /\ flow = "register" /\ pc = "r_load_url"
    /\ IF UrlMissing
       THEN Terminate("exit1", "SystemExit")
       ELSE /\ Continue("r_create_driver")
            /\ UNCHANGED <<prompts, driver, auth, listed, selected, creds>>
    /\ UNCHANGED <<clock, storeVars, url, siteRp, otherVars, typed, lastLogin>>

RegCreateDriver ==
    /\ flow = "register" /\ pc = "r_create_driver"
    /\ driver' = "open"
    /\ Continue("r_setup_authenticator")
    /\ UNCHANGED <<clock, storeVars, url, siteRp, otherVars, prompts, typed, auth,
                   listed, selected, creds, lastLogin>>

RegSetupAuthenticator ==
    /\ flow = "register" /\ pc = "r_setup_authenticator"
    /\ auth' = <<>>
    /\ Continue("r_get")
    /\ UNCHANGED <<clock, storeVars, url, siteRp, otherVars, prompts, typed, driver,
                   listed, selected, creds, lastLogin>>

\* the steps of register.main that only drive the page
RegUiNext ==
    [r_get |-> "r_wait_for_login",
     r_wait_for_login |-> "r_nav_direct",
     r_nav_direct |-> "r_otp_click",
     r_nav_account_info |-> "r_nav_passkey_link",
     r_nav_passkey_link |-> "r_otp_click",
     r_otp_click |-> "r_wait_otp",
     r_wait_otp |-> "r_wait_ceremony"]

RegUiStep ==
    /\ flow = "register" /\ pc \in DOMAIN RegUiNext
    /\ Continue(RegUiNext[pc])
    /\ UNCHANGED <<clock, storeVars, url, siteRp, otherVars, prompts, typed, driver,
                   auth, listed, selected, creds, lastLogin>>

\* navigate_to_passkey_setup: the short wait for the direct link times out,
\* the TimeoutException is caught and the account-information path is taken
RegNavDirectTimeout ==
    /\ flow = "register" /\ pc = "r_nav_direct"
    /\ Continue("r_nav_account_info")
    /\ UNCHANGED <<clock, storeVars, url, siteRp, otherVars, prompts, typed, driver,
                   auth, listed, selected, creds, lastLogin>>

\* the credential the authenticator creates in a ceremony.  Its id is an
\* opaque handle that no code of the repository reads: every created
\* credential carries the same one here, and a stored credential is known by
\* its file and its position in it
NewCredential(rp) == [id |-> "handle", rp_id |-> rp, sign_count |-> 0]

\* the step-3 image is found: the authenticator has answered the page's
\* ceremony with a new credential, or the page shows step 3 without one
RegWaitCeremony ==
    /\ flow = "register" /\ pc = "r_wait_ceremony"
    /\ \/ auth' = Append(auth, NewCredential(siteRp))
       \/ UNCHANGED auth
    /\ Continue("r_get_credentials")
    /\ UNCHANGED <<clock, storeVars, url, siteRp, otherVars, prompts, typed, driver,
                   listed, selected, creds, lastLogin>>

\* the save made before the check for an empty list
RegGetCredentials_SaveFirst ==
    /\ flow = "register" /\ pc = "r_get_credentials"
    /\ dirExists' = TRUE
    /\ files' = save_credentials(files, clock, auth)
    /\ IF auth = <<>>
       THEN Terminate("error", "RuntimeError")
       ELSE /\ creds' = auth
            /\ Continue("r_enter")
            /\ UNCHANGED <<prompts, driver, auth, listed, selected>>
    /\ UNCHANGED <<clock, url, siteRp, otherVars, typed, lastLogin>>

\* an empty list of credentials handed on to the save
RegGetCredentials_Lenient ==
    /\ flow = "register" /\ pc = "r_get_credentials"
    /\ creds' = auth
    /\ Continue("r_save")
    /\ UNCHANGED <<clock, storeVars, url, siteRp, otherVars, prompts, typed,
                   driver, auth, listed, selected, lastLogin>>

\* credentials = driver.get_credentials(); RuntimeError when there is none
RegGetCredentials ==
    /\ flow = "register" /\ pc = "r_get_credentials"
    /\ IF auth = <<>>
       THEN Terminate("error", "RuntimeError")
       ELSE /\ creds' = auth
            /\ Continue("r_save")
            /\ UNCHANGED <<prompts, driver, auth, listed, selected>>
    /\ UNCHANGED <<clock, storeVars, url, siteRp, otherVars, typed, lastLogin>>

\* the snapshot file written with an empty array
RegSave_Blank ==
    /\ flow = "register" /\ pc = "r_save"
    /\ dirExists' = TRUE
    /\ files' = save_credentials(files, clock, <<>>)
    /\ Continue("r_enter")
    /\ UNCHANGED <<clock, url, siteRp, otherVars, prompts, typed, driver, auth,
                   listed, selected, creds, lastLogin>>

\* saved_path = save_credentials(credentials)
RegSave ==
    /\ flow = "register" /\ pc = "r_save"
    /\ dirExists' = TRUE
    /\ files' = save_credentials(files, clock, creds)
    /\ Continue("r_enter")
    /\ UNCHANGED <<clock, url, siteRp, otherVars, prompts, typed, driver, auth,
                   listed, selected, creds, lastLogin>>

\* wait_for_enter("Enter を押して終了...") returns and main() ends
RegFinish ==
    /\ flow = "register" /\ pc = "r_enter"
    /\ Terminate("ok", "")
    /\ UNCHANGED <<clock, storeVars, url, siteRp, otherVars, typed, lastLogin>>

\* --------------------------------------------------------------- login.py
LoginStart ==
    /\ Idle
    /\ flow' = "login"
    /\ pc' = "l_list"
    /\ outcome' = [kind |-> "running", at |-> "idle", err |-> ""]
    /\ driver' = "none"
    /\ preNames' = DOMAIN files
    /\ typed' = <<>>
    /\ tried' = {}
    /\ UNCHANGED <<clock, storeVars, url, siteRp, otherVars, prompts, auth,
                   listed, selected, creds, lastLogin>>

\* the selection prompt issued whenever the listing is not a single file
LoginList_PromptUnlessOne ==
    /\ flow = "login" /\ pc = "l_list"
    /\ LET fl == list_credential_files(dirExists, files) IN
       /\ listed' = fl
       /\ selected' = IF Len(fl) = 1 THEN <<fl[1]>> ELSE <<>>
       /\ Continue(IF Len(fl) = 1 THEN "l_load_url" ELSE "l_prompt")
    /\ UNCHANGED <<clock, storeVars, url, siteRp, otherVars, prompts, typed,
                   driver, auth, creds, lastLogin>>

\* files = list_credential_files(); none: the hint and the last prompt;
\* one: selected = files[0]; several: the selection prompt
LoginList ==
    /\ flow = "login" /\ pc = "l_list"
    /\ LET fl == list_credential_files(dirExists, files) IN
       /\ listed' = fl
       /\ selected' = IF Len(fl) = 1 THEN <<fl[1]>> ELSE <<>>
       /\ Continue(IF fl = <<>> THEN "l_none_enter"
                   ELSE IF Len(fl) = 1 THEN "l_load_url" ELSE "l_prompt")
    /\ UNCHANGED <<clock, storeVars, url, siteRp, otherVars, prompts, typed, driver,
                   auth, creds, lastLogin>>

\* wait_for_enter("Enter を押して終了...") returns and main() returns
LoginNoneFinish ==
    /\ flow = "login" /\ pc = "l_none_enter"
    /\ Terminate("early", "")
    /\ UNCHANGED <<clock, storeVars, url, siteRp, otherVars, typed, lastLogin>>

\* what the operator may type at the prompt: a decimal number, text that is
\* no digit string, or digits int() does not take (isdigit() holds of "²")
Choices(n) ==
    {[kind |-> "decimal", val |-> v] : v \in 0..(n + 1)}
        \cup {[kind |-> "text", val |-> 0], [kind |-> "superscript", val |-> 2]}

isdigit(choice) == choice.kind \in {"decimal", "superscript"}

LoginPrompt(choice) ==
    /\ flow = "login" /\ pc = "l_prompt"
    /\ typed' = <<choice>>
    /\ IF isdigit(choice) /\ choice.kind = "superscript"
       THEN \* int(choice) raises ValueError
            Terminate("error", "ValueError")
       ELSE IF isdigit(choice) /\ 1 <= choice.val /\ choice.val <= Len(listed)
       THEN /\ selected' = <<listed[choice.val]>>
            /\ prompts' = 0
            /\ Continue("l_load_url")
            /\ UNCHANGED <<driver, auth, listed, creds>>
       ELSE /\ prompts < MaxPrompts
            /\ prompts' = prompts + 1
            /\ UNCHANGED <<flow, pc, tried, driver, auth, listed, selected,
                           creds, outcome, preNames>>
    /\ UNCHANGED <<clock, storeVars, url, siteRp, otherVars, lastLogin>>

LoginLoadUrl ==
    /\ flow = "login" /\ pc = "l_load_url"
    /\ IF UrlMissing
       THEN Terminate("exit1", "SystemExit")
       ELSE /\ Continue("l_create_driver")
            /\ UNCHANGED <<prompts, driver, auth, listed, selected, creds>>
    /\ UNCHANGED <<clock, storeVars, url, siteRp, otherVars, typed, lastLogin>>

LoginCreateDriver ==
    /\ flow = "login" /\ pc = "l_create_driver"
    /\ driver' = "open"
    /\ Continue("l_setup_authenticator")
    /\ UNCHANGED <<clock, storeVars, url, siteRp, otherVars, prompts, typed, auth,
                   listed, selected, creds, lastLogin>>

LoginSetupAuthenticator ==
    /\ flow = "login" /\ pc = "l_setup_authenticator"
    /\ auth' = <<>>
    /\ Continue("l_load_credentials")
    /\ UNCHANGED <<clock, storeVars, url, siteRp, otherVars, prompts, typed, driver,
                   listed, selected, creds, lastLogin>>

\* credentials = load_credentials_from(selected)
LoginLoadCredentials ==
    /\ flow = "login" /\ pc = "l_load_credentials"
    /\ creds' = load_credentials_from(files, selected[1])
    /\ Continue("l_add_credentials")
    /\ UNCHANGED <<clock, storeVars, url, siteRp, otherVars, prompts, typed, driver,
                   auth, listed, selected, lastLogin>>

\* for cred in credentials: driver.add_credential(cred)
LoginAddCredentials ==
    /\ flow = "login" /\ pc = "l_add_credentials"
    /\ auth' = auth \o creds
    /\ Continue("l_get")
    /\ UNCHANGED <<clock, storeVars, url, siteRp, otherVars, prompts, typed, driver,
                   listed, selected, creds, lastLogin>>

\* driver.get(url)
LoginGet ==
    /\ flow = "login" /\ pc = "l_get"
    /\ Continue("l_click")
    /\ UNCHANGED <<clock, storeVars, url, siteRp, otherVars, prompts, typed, driver,
                   auth, listed, selected, creds, lastLogin>>

\* by how much one signature moves a credential's counter: one as a rule,
\* more with some engines
CounterSteps == {1, 2}

\* the authenticator's list after it has signed with its i-th credential
Signed(a, i, d) == [a EXCEPT ![i].sign_count = a[i].sign_count + d]

\* the snapshot rewritten right after the click, before success is confirmed
LoginClick_SaveEarly ==
    /\ flow = "login" /\ pc = "l_click"
    /\ \E i \in 1..Len(auth), d \in CounterSteps :
          /\ auth[i].sign_count + d <= MaxCount
          /\ auth' = Signed(auth, i, d)
    /\ files' = save_credentials_to(files, auth', selected[1])
    /\ Continue("l_wait_success")
    /\ UNCHANGED <<clock, dirExists, url, siteRp, otherVars, prompts, typed, driver,
                   listed, selected, creds, lastLogin>>

\* the passkey button is found and clicked; the virtual authenticator answers
\* the page's request by itself, signing with one of its credentials
LoginClick ==
    /\ flow = "login" /\ pc = "l_click"
    /\ \E i \in 1..Len(auth), d \in CounterSteps :
          /\ auth[i].sign_count + d <= MaxCount
          /\ auth' = Signed(auth, i, d)
    /\ Continue("l_wait_success")
    /\ UNCHANGED <<clock, storeVars, url, siteRp, otherVars, prompts, typed, driver,
                   listed, selected, creds, lastLogin>>

\* the title check passes within LOGIN_DETECT_TIMEOUT
LoginWaitSuccess ==
    /\ flow = "login" /\ pc = "l_wait_success"
    /\ Continue("l_get_credentials")
    /\ UNCHANGED <<clock, storeVars, url, siteRp, otherVars, prompts, typed, driver,
                   auth, listed, selected, creds, lastLogin>>

\* updated = driver.get_credentials()
LoginGetCredentials ==
    /\ flow = "login" /\ pc = "l_get_credentials"
    /\ creds' = auth
    /\ Continue("l_save")
    /\ UNCHANGED <<clock, storeVars, url, siteRp, otherVars, prompts, typed, driver,
                   auth, listed, selected, lastLogin>>

FirstCount(fs, path) == fs[path][1].signCount

\* the record of this login run: the file it used, the counter of the file's
\* first record now, and whether the login run before it used the same file
LoginRecord(fs, path) ==
    <<[path |-> path, count |-> FirstCount(fs, path),
       nth |-> IF lastLogin # <<>> /\ lastLogin[1].path = path THEN 2 ELSE 1]>>

\* the updated records written to a new timestamped file
LoginSave_NewFile ==
    /\ flow = "login" /\ pc = "l_save"
    /\ files' = IF creds # <<>>
                THEN save_credentials(files, clock, creds)
                ELSE files
    /\ lastLogin' = LoginRecord(files', selected[1])
    /\ Continue("l_enter")
    /\ UNCHANGED <<clock, dirExists, url, siteRp, otherVars, prompts, typed, driver,
                   auth, listed, selected, creds>>

\* the updated records written over the newest snapshot, whichever was picked
LoginSave_ToNewest ==
    /\ flow = "login" /\ pc = "l_save"
    /\ files' = IF creds # <<>>
                THEN save_credentials_to(files, creds, listed[1])
                ELSE files
    /\ lastLogin' = LoginRecord(files', selected[1])
    /\ Continue("l_enter")
    /\ UNCHANGED <<clock, dirExists, url, siteRp, otherVars, prompts, typed,
                   driver, auth, listed, selected, creds>>

\* if updated: save_credentials_to(updated, selected)
LoginSave ==
    /\ flow = "login" /\ pc = "l_save"
    /\ files' = IF creds # <<>>
                THEN save_credentials_to(files, creds, selected[1])
                ELSE files
    /\ lastLogin' = LoginRecord(files', selected[1])
    /\ Continue("l_enter")
    /\ UNCHANGED <<clock, dirExists, url, siteRp, otherVars, prompts, typed, driver,
                   auth, listed, selected, creds>>

\* wait_for_enter("Enter を押して終了...") returns and main() ends
LoginFinish ==
    /\ flow = "login" /\ pc = "l_enter"
    /\ Terminate("ok", "")
    /\ UNCHANGED <<clock, storeVars, url, siteRp, otherVars, typed, lastLogin>>

\* ------------------------------------------------- the except clauses
\* positions where a call of the step can raise an Exception (a wait timing
\* out, the browser failing to start, a read or parse error, EOF on input)
RaisingSteps ==
    {"r_create_driver", "r_setup_authenticator", "r_get", "r_wait_for_login",
     "r_nav_direct", "r_nav_account_info", "r_nav_passkey_link",
     "r_otp_click", "r_wait_otp", "r_wait_ceremony", "r_get_credentials",
     "r_save", "r_enter",
     "l_none_enter", "l_prompt", "l_create_driver", "l_setup_authenticator",
     "l_load_credentials", "l_add_credentials", "l_get", "l_click",
     "l_wait_success", "l_get_credentials", "l_save", "l_enter"}

\* the failed step taken up again
StepRaises_Retry ==
    /\ pc \in RaisingSteps
    /\ tried' = tried \cup {StepOf(pc)}
    /\ UNCHANGED <<clock, storeVars, url, siteRp, otherVars, flow, pc, prompts,
                   typed, driver, auth, listed, selected, creds, outcome,
                   preNames, lastLogin>>

\* except Exception as e: print_error(e, tips); main() returns
StepRaises ==
    /\ pc \in RaisingSteps
    /\ Terminate("error", "Exception")
    /\ UNCHANGED <<clock, storeVars, url, siteRp, otherVars, typed, lastLogin>>

\* except KeyboardInterrupt: the message; main() returns
OperatorInterrupt ==
    /\ ~Idle
    /\ Terminate("interrupt", "KeyboardInterrupt")
    /\ UNCHANGED <<clock, storeVars, url, siteRp, otherVars, typed, lastLogin>>

Next ==
    \/ Tick
    \/ ClockSetBack
    \/ RegisterStart
    \/ RegLoadUrl
    \/ RegCreateDriver
    \/ RegSetupAuthenticator
    \/ RegUiStep
    \/ RegNavDirectTimeout
    \/ RegWaitCeremony
    \/ RegGetCredentials
    \/ RegSave
    \/ RegFinish
    \/ LoginStart
    \/ LoginList
    \/ LoginNoneFinish
    \/ \E choice \in Choices(Len(listed)) : LoginPrompt(choice)
    \/ LoginLoadUrl
    \/ LoginCreateDriver
    \/ LoginSetupAuthenticator
    \/ LoginLoadCredentials
    \/ LoginAddCredentials
    \/ LoginGet
    \/ LoginClick
    \/ LoginWaitSuccess
    \/ LoginGetCredentials
    \/ LoginSave
    \/ LoginFinish
    \/ StepRaises
    \/ OperatorInterrupt

Spec == Init /\ [][Next]_vars

\* ================================================================ claims
\* ----------------------------------------------------------------- store
LatestNow == load_credentials(dirExists, files)

TwoSavesInARow == ret.op = "save" /\ prevSave # <<>>

FirstPath == prevSave[1].path

\* C6 as stated: any two saves in a row, whatever the time between them, leave
\* two distinct files, the first with its original content, and load-latest
\* then returns the records of the second save.
C6_TwoSavesAnyTime ==
    TwoSavesInARow =>
        /\ FirstPath # ret.path[1]
        /\ FirstPath \in DOMAIN files
        /\ files[FirstPath] = pre[FirstPath]
        /\ LatestNow.err = ""
        /\ LatestNow.creds = ret.creds

\* C6 amended: two saves in a row made at different clock readings leave two
\* distinct files, the first with its original content; load-latest then
\* returns the records of the second save when no file of the directory is
\* named later than the second save's timestamp.
C6_TwoSavesDistinctSeconds ==
    (TwoSavesInARow /\ prevSave[1].time # ret.time) =>
        /\ FirstPath # ret.path[1]
        /\ FirstPath \in DOMAIN files
        /\ ret.path[1] \in DOMAIN files
        /\ files[FirstPath] = pre[FirstPath]
        /\ files[ret.path[1]] = dumps(ret.creds)
        /\ (\A p \in DOMAIN files : p <= ret.path[1]) =>
               (LatestNow.err = "" /\ LatestNow.creds = ret.creds)

C6_Witness ==
    /\ TwoSavesInARow
    /\ prevSave[1].time < ret.time
    /\ Cardinality(DOMAIN files) >= 2
    /\ ret.creds # <<>>
    /\ loads(files[FirstPath]) # ret.creds
    /\ LatestNow.creds = ret.creds

\* C7 as stated: after saving a non-empty list, load-latest returns that list,
\* whatever the directory held before.
C7_RoundTripAnyDirectory ==
    (ret.op = "save" /\ ret.creds # <<>>) =>
        (LatestNow.err = "" /\ LatestNow.creds = ret.creds)

\* C7 amended: after saving a non-empty list, load-latest returns that list,
\* same records in the same order, provided no file already in the directory
\* is named later than the new snapshot's timestamp.
C7_RoundTripWhenNewest ==
    (/\ ret.op = "save"
     /\ ret.creds # <<>>
     /\ \A p \in DOMAIN pre : p <= ret.path[1]) =>
        (LatestNow.err = "" /\ LatestNow.creds = ret.creds)

C7_Witness ==
    /\ ret.op = "save"
    /\ Len(ret.creds) = 2
    /\ DOMAIN pre # {}
    /\ \A p \in DOMAIN pre : p < ret.path[1]
    /\ LatestNow.creds = ret.creds

Aborted == outcome.kind \in {"error", "interrupt", "exit1"}

\* positions of login.main up to the wait for the success title
BeforeLoginSuccess ==
    {"l_list", "l_none_enter", "l_prompt", "l_load_url", "l_create_driver",
     "l_setup_authenticator", "l_load_credentials", "l_add_credentials",
     "l_get", "l_click", "l_wait_success"}

\* C1: a login run that aborts before login success is detected leaves every
\* snapshot file as it was: every step taken while the run is at a position
\* before the detection, the aborting step included, changes no file.
C1_FailedLoginLeavesSnapshots ==
    [][(flow = "login" /\ pc \in BeforeLoginSuccess) =>
           (files' = files /\ dirExists' = dirExists)]_vars

C1_Witness ==
    /\ flow = "login" /\ pc = "done"
    /\ outcome.kind = "error" /\ outcome.at = "l_wait_success"
    /\ driver = "open"
    /\ Cardinality(DOMAIN files) >= 2

\* C2 as stated: a registration run that aborts at any step leaves the set of
\* snapshot files as it was when the run started.
C2_AbortedRegisterKeepsFileSet ==
    (flow = "register" /\ pc = "done" /\ Aborted) => DOMAIN files = preNames

\* C2 amended: a registration run that aborts at any step before its save has
\* written leaves the set of snapshot files as it was when the run started; a
\* file is created only by the save that follows the detected ceremony (an
\* interrupt or an error at the last prompt, after the save, keeps the file).
C2_AbortBeforeSaveKeepsFileSet ==
    /\ (flow = "register" /\ pc \notin {"r_enter", "done"}) =>
           DOMAIN files = preNames
    /\ (flow = "register" /\ pc = "done" /\ outcome.at # "r_enter") =>
           DOMAIN files = preNames

C2_Witness ==
    /\ flow = "register" /\ pc = "done"
    /\ outcome.kind = "error" /\ outcome.err = "RuntimeError"
    /\ preNames # {}
    /\ DOMAIN files = preNames

\* C3: over login runs, successful or failed, the signature counter a
\* snapshot file stores for a credential never decreases: no step of a login
\* run lowers the counter of any stored record.
C3_CounterNeverDecreases ==
    [][flow = "login" =>
           \A p \in DOMAIN files :
               /\ p \in DOMAIN files'
               /\ \A i \in 1..Len(files[p]) :
                      /\ i <= Len(files'[p])
                      /\ files'[p][i].signCount >= files[p][i].signCount]_vars

C3_Witness ==
    /\ flow = "login" /\ pc = "done" /\ Aborted
    /\ lastLogin # <<>>
    /\ lastLogin[1].path \in DOMAIN files
    /\ FirstCount(files, lastLogin[1].path) = lastLogin[1].count
    /\ lastLogin[1].count >= 1

\* C4: of two successful login runs in a row against the same snapshot file,
\* the second stores a first-record signature counter strictly greater than
\* the one the first stored.
C4_SecondLoginIncreases ==
    [][(/\ flow = "login" /\ pc = "l_save" /\ pc' = "l_enter"
        /\ lastLogin # <<>>
        /\ lastLogin[1].path = selected[1]) =>
           FirstCount(files', selected[1]) > lastLogin[1].count]_vars

C4_Witness ==
    /\ flow = "login" /\ pc = "l_enter"
    /\ lastLogin # <<>>
    /\ lastLogin[1].nth = 2
    /\ FirstCount(files, lastLogin[1].path) = lastLogin[1].count

\* C5: every record of every stored snapshot has the relying-party id that
\* extract_domain returns for the configured login URL.
C5_RpIdIsRegistrableDomain ==
    \A p \in DOMAIN files :
        \A i \in 1..Len(files[p]) :
            files[p][i].rpId = extract_domain(url).value

\* C10: a run that launched a browser session has attempted to close it by
\* the time the process ends, however the run ended.
C10_SessionClosedOnExit ==
    (pc = "done" /\ driver # "none") => driver = "quit"

\* ---------------------------------------------------------------- domain
\* the reference rule, read off the host text by the positions of its dots
DotsOf(h) == {i \in 1..Len(h) : h[i] = Dot}

\* position of the k-th dot from the end (0: fewer than k dots)
DotFromEnd(h, k) ==
    IF Cardinality(DotsOf(h)) < k THEN 0
    ELSE CHOOSE i \in DotsOf(h) :
             Cardinality({j \in DotsOf(h) : j > i}) = k - 1

RefLastLabels(h, k) == SubSeq(h, DotFromEnd(h, k) + 1, Len(h))

RefSecondToLast(h) == SubSeq(h, DotFromEnd(h, 2) + 1, DotFromEnd(h, 1) - 1)

RefDomain(h) ==
    IF /\ Cardinality(DotsOf(h)) + 1 >= 3
       /\ RefSecondToLast(h) \in {<<"co">>, <<"or">>, <<"ne">>, <<"ac">>, <<"go">>}
    THEN RefLastLabels(h, 3)
    ELSE RefLastLabels(h, 2)

\* C9: extract_domain fails with ValueError when the URL has no hostname;
\* otherwise it returns the last three labels when the hostname has at least
\* three labels and its second-to-last label is co, or, ne, ac or go, and the
\* last two labels in every other case.
C9_ExtractDomainRule ==
    domainRet.called =>
        IF hostname(url) = <<>>
        THEN domainRet.err = "ValueError"
        ELSE domainRet.err = "" /\ domainRet.value = RefDomain(hostname(url))

C9_Witness ==
    /\ domainRet.called
    /\ url.netloc = <<"a", Dot, "a", Dot, "CO", Dot, "jp">>
    /\ domainRet.value = <<"a", Dot, "co", Dot, "jp">>

\* ------------------------------------------------------ selection and exits
\* the inputs the selection prompt is meant to take: a number from 1 to n
ValidChoice(choice, n) ==
    choice.kind = "decimal" /\ 1 <= choice.val /\ choice.val <= n

\* C11: at the selection prompt every input that is no number from 1 to N is
\* rejected and asked for again, with nothing selected, no browser and the run
\* still going; an input k from 1 to N selects the k-th file of the
\* newest-first listing; a single file is selected without a prompt.
C11_SelectionPrompt ==
    [][/\ \A choice \in Choices(Len(listed)) :
             LoginPrompt(choice) =>
                IF ValidChoice(choice, Len(listed))
                THEN /\ selected' = <<SortedReverse(DOMAIN files)[choice.val]>>
                     /\ pc' = "l_load_url"
                ELSE /\ pc' = "l_prompt"
                     /\ selected' = <<>>
                     /\ driver' = "none"
                     /\ outcome'.kind = "running"
       /\ (LoginList /\ Cardinality(DOMAIN files) = 1) =>
             /\ selected' = <<CHOOSE p \in DOMAIN files : TRUE>>
             /\ pc' = "l_load_url"]_vars

\* C12 as stated: a login run started with no snapshot file never launches a
\* browser, never attaches an authenticator, creates no file, and, unless the
\* operator interrupts it, ends as the guided early return with no error
\* reported.
C12_NoSnapshotCleanExit ==
    (flow = "login" /\ preNames = {}) =>
        /\ driver = "none" /\ auth = <<>> /\ files = NoFiles
        /\ pc \in {"l_list", "l_none_enter", "done"}
        /\ (pc = "done" /\ outcome.kind # "interrupt") => outcome.kind = "early"

\* C12 amended: a login run started with no snapshot file never launches a
\* browser, never attaches an authenticator, creates no file and never takes
\* the exit-1 path; it ends as the guided early return unless the read at the
\* final prompt fails or the operator interrupts, and an error is reported
\* only for a failure of that read.
C12_NoSnapshotStopsEarly ==
    (flow = "login" /\ preNames = {}) =>
        /\ driver = "none" /\ auth = <<>> /\ files = NoFiles
        /\ pc \in {"l_list", "l_none_enter", "done"}
        /\ pc = "done" =>
              \/ outcome.kind = "early"
              \/ outcome.kind = "interrupt"
              \/ outcome.kind = "error" /\ outcome.at = "l_none_enter"

C12_Witness ==
    /\ flow = "login" /\ preNames = {} /\ dirExists
    /\ pc = "done" /\ outcome.kind = "early" /\ outcome.at = "l_none_enter"
    /\ UrlMissing

\* C13: a finished run has a non-zero exit status only when it took the
\* missing-URL exit of load_url; every run ended by a caught failure or an
\* operator interrupt, and every completed or early-returned run, exits zero.
C13_ExitStatus ==
    pc = "done" =>
        /\ exit_status(outcome) # 0 =>
              /\ UrlMissing
              /\ outcome.at \in {"r_load_url", "l_load_url"}
        /\ outcome.kind \in {"ok", "early", "error", "interrupt"} =>
              exit_status(outcome) = 0
        /\ (UrlMissing /\ outcome.at \in {"r_load_url", "l_load_url"}
              /\ outcome.kind # "interrupt") => exit_status(outcome) = 1

C13_Witness ==
    /\ pc = "done" /\ flow = "register" /\ outcome.kind = "error"
    /\ outcome.err = "RuntimeError" /\ driver = "open"
    /\ exit_status(outcome) = 0

\* C14: load-latest on an absent or empty directory fails with NotFound and
\* the existence check answers false there; in every state the existence
\* check answers true exactly when the listing has a file, and load-latest
\* succeeds only then.
C14_ExistsIffListed ==
    LET fl == list_credential_files(dirExists, files) IN
    /\ (~dirExists \/ DOMAIN files = {}) =>
          /\ load_credentials(dirExists, files).err = "FileNotFoundError"
          /\ ~credential_exists(dirExists, files)
    /\ credential_exists(dirExists, files) <=> Len(fl) >= 1
    /\ load_credentials(dirExists, files).err = "" => Len(fl) >= 1
    /\ ret.op = "load" =>
          /\ ret.err = "FileNotFoundError" <=> fl = <<>>
          /\ ret.err = "" <=> Len(fl) >= 1
    /\ ret.op = "exists" => (ret.flag <=> Len(fl) >= 1)

C14_Witness ==
    /\ ret.op = "load" /\ ret.err = "FileNotFoundError"
    /\ dirExists /\ files = NoFiles

\* C15: when the registration run reads the authenticator after the detected
\* ceremony and finds no credential, it ends with a RuntimeError, writes no
\* file, and the save is not reached; the save is only ever reached with a
\* non-empty list.
C15_EmptyAuthenticatorFails ==
    [][/\ (RegGetCredentials /\ auth = <<>>) =>
             /\ pc' = "done"
             /\ outcome'.kind = "error" /\ outcome'.err = "RuntimeError"
             /\ files' = files /\ dirExists' = dirExists
       /\ (flow' = "register" /\ pc' = "r_save") => creds' # <<>>]_vars

C15_Witness ==
    /\ flow = "register" /\ pc = "done"
    /\ outcome.at = "r_get_credentials" /\ outcome.err = "RuntimeError"
    /\ DOMAIN files = preNames /\ preNames # {}

\* C16 as stated: every exception raised by a step, a timed-out wait
\* included, ends the run; a run that has ended takes no further step; and no
\* step is attempted that was attempted before in the same run.
C16_NoRetryAnywhere ==
    [][/\ (StepRaises \/ RegNavDirectTimeout) => pc' = "done"
       /\ outcome'.kind \in {"error", "exit1", "interrupt"} => pc' = "done"
       /\ pc = "done" => (pc' = "done" \/ tried' = {})
       /\ ~Idle' => StepOf(pc') \notin tried']_vars

\* C16 amended: apart from the fallback of navigate_to_passkey_setup (the
\* timeout of the short wait for the direct link is caught, the
\* account-information path follows and waits for the same link once more),
\* every exception raised by a step ends the run, a run that has ended takes
\* no further step, and no step is attempted a second time.
C16_NoRetryButNavFallback ==
    [][/\ StepRaises => pc' = "done"
       /\ outcome'.kind \in {"error", "exit1", "interrupt"} => pc' = "done"
       /\ RegNavDirectTimeout =>
             pc' = "r_nav_account_info" /\ outcome'.kind = "running"
       /\ pc = "done" => (pc' = "done" \/ tried' = {})
       /\ (~Idle' /\ pc' # "r_nav_passkey_link") =>
             StepOf(pc') \notin tried']_vars

C16_Witness ==
    /\ flow = "register" /\ pc = "done"
    /\ outcome.kind = "error" /\ outcome.at = "r_nav_passkey_link"
    /\ "r_nav_account_info" \in tried

\* ------------------------------------------------------------- login frame
\* C17: no step taken while a login run is the current run adds or removes a
\* snapshot file; a step changes a file's content only if the file is the
\* one selected for the run, the run stands at its save (after the detected
\* login success) and the authenticator returned at least one record; every
\* other file keeps its content.
C17_LoginWritesOnlySelected ==
    [][flow = "login" =>
          /\ DOMAIN files' = DOMAIN files
          /\ dirExists' = dirExists
          /\ \A p \in DOMAIN files :
                files'[p] # files[p] =>
                   /\ pc = "l_save" /\ pc' = "l_enter"
                   /\ "l_wait_success" \in tried
                   /\ creds # <<>>
                   /\ selected = <<p>>]_vars

C17_Witness ==
    /\ flow = "login" /\ pc = "l_enter"
    /\ Cardinality(DOMAIN files) = 2
    /\ selected # <<listed[1]>>
    /\ FirstCount(files, selected[1]) > 0
    /\ FirstCount(files, listed[1]) = 0

\* C18: every snapshot file of the directory holds at least one record, in
\* every state reached by registration and login runs from a directory
\* without snapshot files.
C18_SnapshotsNonEmpty ==
    \A p \in DOMAIN files : Len(files[p]) >= 1

C18_Witness ==
    /\ flow = "login" /\ pc = "done" /\ outcome.kind = "ok"
    /\ Cardinality(DOMAIN files) = 2
    /\ \A p \in DOMAIN files : FirstCount(files, p) > 0

\* ------------------------------------------------------------ idempotence
\* r is the tail of h from a label boundary on
LabelSuffix(r, h) ==
    /\ Len(r) <= Len(h)
    /\ SubSeq(h, Len(h) - Len(r) + 1, Len(h)) = r
    /\ Len(r) < Len(h) => h[Len(h) - Len(r)] = Dot

\* C19: for every URL with a hostname, extract_domain of a URL whose hostname
\* is extract_domain(url) gives extract_domain(url) again, and
\* extract_domain(url) is the hostname's tail from a label boundary on, of at
\* most three labels.
C19_ExtractDomainIdempotent ==
    (domainRet.called /\ hostname(url) # <<>>) =>
        LET again == extract_domain([kind |-> "url", netloc |-> domainRet.value])
        IN  /\ domainRet.err = ""
            /\ again.err = ""
            /\ again.value = domainRet.value
            /\ LabelSuffix(domainRet.value, hostname(url))
            /\ Cardinality(DotsOf(domainRet.value)) + 1 <= 3

C19_Witness ==
    /\ domainRet.called
    /\ url.netloc = <<"a", Dot, "co", Dot, "a", Dot, "jp">>
    /\ domainRet.value = <<"a", Dot, "jp">>

====
